---------------------------- MODULE Spec2Model ----------------------------
(***************************************************************************)
(* Model of src/bot.py: a Telegram bot that hands out sequential mailboxes *)
(* admin<N>@domain (MailSlurp backend) and keeps, in data.json, the        *)
(* counter and the chat -> mailbox mapping.                                *)
(*                                                                         *)
(* Each callback-query update is one run of button_handler.  A handler is  *)
(* a coroutine of one event loop: it runs alone from one await to the      *)
(* next.  The awaits are query.answer() (line 86) and the reply_text calls;*)
(* the MailSlurp calls and the file I/O are synchronous and keep the loop. *)
(* `running` is the handler that holds the loop (0: the loop is free).     *)
(* Handlers of different updates may overlap at their awaits, the widest   *)
(* scheduling an Application can be built with; its default, one update    *)
(* at a time, gives the runs of this model in which they do not overlap.   *)
(*                                                                         *)
(* A reply counts as sent when reply_text is called with it; whether the   *)
(* call then returns or raises is the chat transport's outcome             *)
(* (Delivered, ReplyFails).                                                *)
(***************************************************************************)
EXTENDS Integers, Sequences, FiniteSets, TLC

\* ------------------------------------------------------------- bounds
MaxOps == 2
MaxChats == 2
MaxCrashes == 1

Tasks == 1..MaxOps
Chats == 1..MaxChats

\* ------------------------------------------------------------- values
DOMAIN_NAME == "Mail.Example"

\* callback_data values; "other" stands for any unexpected callback_data
Actions == {"create_mail", "change_mail", "get_otp", "other"}

EmptyDict == [k \in {} |-> 0]

\* faulty variant: the counter starts at 1
InitData_one == [counter |-> 1, chats |-> EmptyDict]

\* load_data, line 40: the record written when data.json does not exist
InitData == [counter |-> 0, chats |-> EmptyDict]

\* data.json: absent, holding a JSON record, or holding text json.load rejects
\* (what open(..., "w") followed by an interrupted json.dump leaves behind)
Absent == [st |-> "absent", data |-> InitData]
Corrupt == [st |-> "corrupt", data |-> InitData]
Ok(data) == [st |-> "ok", data |-> data]

\* message bodies, as sequences of characters
Digits == {"0", "1", "2", "3", "4", "5", "6", "7", "8", "9"}
BodySix == <<"c", " ", "1", "2", "3", "4", "5", "6", " ", "n">>
BodySeven == <<"c", " ", "1", "2", "3", "4", "5", "6", "7", " ", "n">>
BodyTwo == <<"a", ":", "1", "1", "1", "1", "1", "1", " ", "b", ":", "2", "2", "2", "2", "2", "2">>
NoBody == <<>>

\* the emails the backend may hold (subject, sender, body; "" and <<>> are
\* the empty / missing values)
Emails ==
    { [subject |-> "Your code", from_ |-> "noreply", body |-> BodySix],
      [subject |-> "", from_ |-> "", body |-> NoBody],
      [subject |-> "Big", from_ |-> "noreply", body |-> BodySeven],
      [subject |-> "", from_ |-> "noreply", body |-> BodyTwo] }

NoEmail == [subject |-> "", from_ |-> "", body |-> NoBody]
NoAddress == [user |-> "", n |-> 0, domain |-> ""]
NoInbox == [id |-> 0, email_address |-> NoAddress]

VARIABLES
    file,       \* data.json
    up,         \* the process is running (main has passed load_data)
    crashes,    \* process kills so far
    running,    \* the handler holding the event loop, 0 if none
    tasks,      \* the handlers: position and locals of each button_handler run
    requests    \* backend: the create_inbox calls received, in order

vars == <<file, up, crashes, running, tasks, requests>>

\* ------------------------------------------------ data file (lines 34-61)

\* faulty variant: an unreadable file is treated like a missing one
load_data_reset(f) ==
    IF f.st \in {"absent", "corrupt"}
    THEN [raised |-> FALSE, data |-> InitData, file |-> Ok(InitData)]
    ELSE [raised |-> FALSE, data |-> f.data, file |-> f]

\* load_data: [raised, data, file]; creates the file when it does not exist,
\* raises (json.load) when its content is not JSON
load_data(f) ==
    IF f.st = "absent"
    THEN [raised |-> FALSE, data |-> InitData, file |-> Ok(InitData)]
    ELSE IF f.st = "corrupt"
    THEN [raised |-> TRUE, data |-> InitData, file |-> f]
    ELSE [raised |-> FALSE, data |-> f.data, file |-> f]

\* the ways open(DATA_FILE, "w") + json.dump can end
SaveOutcomes == {"ok", "open_fails", "write_fails"}

\* faulty variant: the write never reaches the file
save_data_lost(f, data, outcome) == f

\* save_data: the file after the call; open(..., "w") truncates the file, so
\* a failure after it leaves no record
save_data(f, data, outcome) ==
    IF outcome = "ok" THEN Ok(data)
    ELSE IF outcome = "open_fails" THEN f
    ELSE Corrupt

\* faulty variant: a failed write is swallowed
SaveRaises_never(outcome) == FALSE

\* save_data raises when open or json.dump fails
SaveRaises(outcome) == outcome # "ok"

\* faulty variant: the counter is set to 1 instead of being incremented
get_next_counter_one(data) == [data EXCEPT !.counter = 1]

\* faulty variant: the increment is lost
get_next_counter_noinc(data) == data

\* faulty variant: the record is rebuilt around the counter, the chats are lost
get_next_counter_fresh(data) == [counter |-> data.counter + 1, chats |-> EmptyDict]

\* get_next_counter, line 59: data["counter"] += 1
get_next_counter(data) == [data EXCEPT !.counter = @ + 1]

\* ------------------------------------------------ handler helpers

\* line 106: f"admin{num}@{config.DOMAIN_NAME}"
email_addr(num) == [user |-> "admin", n |-> num, domain |-> DOMAIN_NAME]

\* backend: the address of the created inbox is the requested one as the
\* backend normalises it (lower case)
Confirmed(addr) == [addr EXCEPT !.domain = "mail.example"]

\* faulty variant: the address as formatted locally is stored
Session_local(inbox, num) ==
    [inbox_id |-> inbox.id, email |-> email_addr(num), number |-> num]

\* lines 112-116: the entry saved for the chat
Session(inbox, num) ==
    [inbox_id |-> inbox.id, email |-> inbox.email_address, number |-> num]

\* faulty variant: an existing entry is kept (setdefault)
PutSession_keep(data, chat_id, s) ==
    [data EXCEPT !.chats =
        [k \in (DOMAIN data.chats) \cup {chat_id} |->
            IF k \in DOMAIN data.chats THEN data.chats[k] ELSE s]]

\* lines 112-116: data["chats"][chat_id] = {...}
PutSession(data, chat_id, s) ==
    [data EXCEPT !.chats =
        [k \in (DOMAIN data.chats) \cup {chat_id} |->
            IF k = chat_id THEN s ELSE data.chats[k]]]

\* faulty variant: the test is skipped
HasSession_always(data, chat_id) == TRUE

\* line 147: chat_id in data["chats"]
HasSession(data, chat_id) == chat_id \in DOMAIN data.chats

\* faulty variant: the empty list is not recognised
NoEmails_never(emails) == FALSE

\* line 169: not emails
NoEmails(emails) == emails = <<>>

\* faulty variant: get_email is called outside a try
Catches_not_get_email(pc) == pc \in {"create", "fetch"}

\* lines 103/137, 154/161, 174/176: the backend calls made inside a try
\* whose except branch turns the exception into a reply
Catches(pc) == pc \in {"create", "fetch", "get_email"}

\* faulty variant: every known button takes the create branch
Provisioning_any_button(action) == action # "other"

\* line 102: action in ("create_mail", "change_mail")
Provisioning(action) == action \in {"create_mail", "change_mail"}

\* Python's `x or default` on a string / body
OrElse(x, empty, default) == IF x = empty THEN default ELSE x

\* replies (reply_text calls): kind and variable part
Reply(kind, text) == [kind |-> kind, text |-> text]

\* lines 120-124
CreatedReply(inbox) == Reply("created", <<inbox.email_address, inbox.id>>)

\* lines 183-192
EmailReply(full_email) ==
    Reply("email",
          << OrElse(full_email.subject, "", "<no subject>"),
             OrElse(full_email.from_, "", "<unknown sender>"),
             OrElse(full_email.body, NoBody, <<"<empty email body>">>) >>)

\* backend: what an inbox may hold when it is listed, oldest email first
Older == [subject |-> "Old", from_ |-> "noreply", body |-> BodySix]
Inboxes == {<<>>} \cup {<<e>> : e \in Emails} \cup {<<Older, e>> : e \in Emails}

\* faulty variant: the oldest email is returned (sort="ASC")
get_emails_for_inbox_oldest(inbox) ==
    IF inbox = <<>> THEN <<>> ELSE << inbox[1] >>

\* get_emails_for_inbox(inbox_id, limit=1, sort="DESC"): the newest email
\* alone, or the empty list
get_emails_for_inbox(inbox) ==
    IF inbox = <<>> THEN <<>> ELSE << inbox[Len(inbox)] >>

\* ------------------------------------------------ state

NewTask ==
    [pc |-> "idle", action |-> "other", chat_id |-> 1,
     data |-> InitData, orig |-> InitData, num |-> 0, inbox |-> NoInbox,
     inbox_id |-> 0, listed |-> <<>>, emails |-> <<>>, latest |-> NoEmail, out |-> Reply("none", <<>>),
     exc |-> "none", replies |-> <<>>]

\* a handler that has ended (returned, raised, or died with the process):
\* its locals are gone
End(pc) == [NewTask EXCEPT !.pc = pc]

Init ==
    /\ file = Absent
    /\ up = FALSE
    /\ crashes = 0
    /\ running = 0
    /\ tasks = [t \in Tasks |-> NewTask]
    /\ requests = <<>>

\* ------------------------------------------------ process

\* main, lines 208-219: load_data (creating data.json if missing), then poll.
\* With an unreadable data.json load_data raises and the process never runs.
Main ==
    /\ ~up
    /\ ~load_data(file).raised
    /\ file' = load_data(file).file
    /\ up' = TRUE
    /\ UNCHANGED <<crashes, running, tasks, requests>>

Live(t) == tasks[t].pc \notin {"idle", "done", "raised", "killed"}

\* the process is killed; a kill while save_data is between open(..., "w")
\* and the end of json.dump leaves a truncated file
Crash ==
    /\ up
    /\ crashes < MaxCrashes
    /\ \E midwrite \in BOOLEAN :
        /\ midwrite => (running # 0 /\ tasks[running].pc \in {"alloc", "store"})
        /\ file' = IF midwrite THEN Corrupt ELSE file
    /\ up' = FALSE
    /\ crashes' = crashes + 1
    /\ running' = 0
    /\ tasks' = [t \in Tasks |->
                    IF Live(t) THEN End("killed") ELSE tasks[t]]
    /\ UNCHANGED requests

\* ------------------------------------------------ button_handler

\* a callback query arrives (handlers are numbered in arrival order) and
\* line 86, await query.answer(), returns: the handler takes the loop
Start(t) ==
    /\ up /\ running = 0
    /\ tasks[t].pc = "idle"
    /\ \A u \in Tasks : u < t => tasks[u].pc # "idle"
    /\ \E c \in Chats, a \in Actions :
        tasks' = [tasks EXCEPT ![t] = [@ EXCEPT !.pc = "load", !.chat_id = c, !.action = a]]
    /\ running' = t
    /\ UNCHANGED <<file, up, crashes, requests>>

\* a callback query arrives and line 86, await query.answer(), raises: the
\* exception leaves the handler
AnswerFails(t) ==
    /\ up /\ running = 0
    /\ tasks[t].pc = "idle"
    /\ \A u \in Tasks : u < t => tasks[u].pc # "idle"
    /\ tasks' = [tasks EXCEPT ![t] = End("raised")]
    /\ UNCHANGED <<file, up, crashes, running, requests>>

\* lines 88-102, 146, 196-199: load_data, then the branch on query.data
Load(t) ==
    /\ up /\ running = t
    /\ tasks[t].pc = "load"
    /\ LET r == load_data(file)
           a == tasks[t].action
       IN IF r.raised
          THEN /\ tasks' = [tasks EXCEPT ![t] = End("raised")]
               /\ running' = 0
               /\ file' = file
          ELSE /\ tasks' = [tasks EXCEPT ![t] =
                    [@ EXCEPT !.data = r.data, !.orig = r.data,
                              !.pc = IF Provisioning(a) THEN "alloc"
                                     ELSE IF a = "get_otp" THEN "check"
                                     ELSE "reply",
                              !.out = IF Provisioning(a) \/ a = "get_otp"
                                      THEN @ ELSE Reply("unknown", <<>>)]]
               /\ running' = t
               /\ file' = r.file
    /\ UNCHANGED <<up, crashes, requests>>

Last(q) == q[Len(q)]

\* a reply_text call is issued; the handler is suspended until it returns.
\* Its locals are never read again; of a handler inside the try of lines
\* 103-135, whose except branch may yet run, the chat, the action and the
\* record as loaded are kept.
Send(t, r) ==
    /\ tasks' = [tasks EXCEPT ![t] =
            IF r.kind = "created"
            THEN [NewTask EXCEPT !.pc = "await", !.replies = Append(tasks[t].replies, r),
                                 !.chat_id = tasks[t].chat_id, !.action = tasks[t].action,
                                 !.orig = tasks[t].orig]
            ELSE [NewTask EXCEPT !.pc = "await", !.replies = Append(tasks[t].replies, r)]]
    /\ running' = 0

\* line 105: num = get_next_counter(data) (increment, save_data, return)
Alloc(t) ==
    /\ up /\ running = t
    /\ tasks[t].pc = "alloc"
    /\ \E o \in SaveOutcomes :
        LET d == get_next_counter(tasks[t].data)
        IN /\ file' = save_data(file, d, o)
           /\ tasks' = [tasks EXCEPT ![t] =
                IF SaveRaises(o)
                THEN [@ EXCEPT !.data = d, !.exc = "counter_save", !.pc = "except"]
                ELSE [@ EXCEPT !.data = d, !.num = d.counter, !.pc = "create"]]
    /\ UNCHANGED <<up, crashes, running, requests>>

\* lines 106-109: inbox_ctrl.create_inbox(email_address=email_addr); the
\* backend gives every inbox a fresh id
Create(t) ==
    /\ up /\ running = t
    /\ tasks[t].pc = "create"
    /\ \E ok \in BOOLEAN :
        /\ requests' = Append(requests, [address |-> email_addr(tasks[t].num), ok |-> ok])
        /\ IF ok
           THEN /\ tasks' = [tasks EXCEPT ![t] =
                    [@ EXCEPT !.inbox = [id |-> Len(requests) + 1,
                                         email_address |-> Confirmed(email_addr(tasks[t].num))],
                              !.pc = "store"]]
                /\ running' = t
           ELSE IF Catches("create")
           THEN /\ tasks' = [tasks EXCEPT ![t] =
                    [@ EXCEPT !.exc = "create_inbox", !.pc = "except"]]
                /\ running' = t
           ELSE /\ tasks' = [tasks EXCEPT ![t] = End("raised")]
                /\ running' = 0
    /\ UNCHANGED <<file, up, crashes>>

\* lines 112-124: the chat's entry is replaced, save_data, the success text
Store(t) ==
    /\ up /\ running = t
    /\ tasks[t].pc = "store"
    /\ \E o \in SaveOutcomes :
        LET d == PutSession(tasks[t].data, tasks[t].chat_id,
                            Session(tasks[t].inbox, tasks[t].num))
        IN /\ file' = save_data(file, d, o)
           /\ tasks' = [tasks EXCEPT ![t] =
                IF SaveRaises(o)
                THEN [@ EXCEPT !.data = d, !.exc = "session_save", !.pc = "except"]
                ELSE [@ EXCEPT !.data = d, !.out = CreatedReply(tasks[t].inbox), !.pc = "reply"]]
    /\ UNCHANGED <<up, crashes, running, requests>>

\* lines 137-143: except Exception: log, reply with the creation error
Except(t) ==
    /\ up /\ running = t
    /\ tasks[t].pc = "except"
    /\ Send(t, Reply("create_error", <<>>))
    /\ UNCHANGED <<file, up, crashes, requests>>

\* lines 147-153: get_otp needs the chat's entry (a lookup of a missing key
\* at line 153 is a KeyError, which leaves the handler)
Check(t) ==
    /\ up /\ running = t
    /\ tasks[t].pc = "check"
    /\ LET c == tasks[t].chat_id
           d == tasks[t].data
       IN IF ~HasSession(d, c)
          THEN /\ tasks' = [tasks EXCEPT ![t] =
                        [@ EXCEPT !.out = Reply("no_session", <<>>), !.pc = "reply"]]
               /\ running' = t
          ELSE IF c \notin DOMAIN d.chats
          THEN /\ tasks' = [tasks EXCEPT ![t] = End("raised")]
               /\ running' = 0
          ELSE /\ tasks' = [tasks EXCEPT ![t] =
                        [@ EXCEPT !.inbox_id = d.chats[c].inbox_id, !.pc = "fetch"]]
               /\ running' = t
    /\ UNCHANGED <<file, up, crashes, requests>>

\* lines 154-173: get_emails_for_inbox(limit=1, sort="DESC") on the chat's
\* inbox, whatever it holds at that moment (emails[0] of an empty list is an
\* IndexError, which leaves the handler)
Fetch(t) ==
    /\ up /\ running = t
    /\ tasks[t].pc = "fetch"
    /\ \E ok \in BOOLEAN, inbox \in Inboxes :
        LET emails == get_emails_for_inbox(inbox)
        IN IF ~ok /\ ~Catches("fetch")
           THEN /\ tasks' = [tasks EXCEPT ![t] = End("raised")]
                /\ running' = 0
           ELSE IF ~ok
           THEN /\ tasks' = [tasks EXCEPT ![t] =
                        [@ EXCEPT !.listed = inbox, !.out = Reply("fetch_error", <<>>),
                                  !.pc = "reply"]]
                /\ running' = t
           ELSE IF NoEmails(emails)
           THEN /\ tasks' = [tasks EXCEPT ![t] =
                        [@ EXCEPT !.listed = inbox, !.emails = emails,
                                  !.out = Reply("no_emails", <<>>), !.pc = "reply"]]
                /\ running' = t
           ELSE IF emails = <<>>
           THEN /\ tasks' = [tasks EXCEPT ![t] = End("raised")]
                /\ running' = 0
           ELSE /\ tasks' = [tasks EXCEPT ![t] =
                        [@ EXCEPT !.listed = inbox, !.emails = emails,
                                  !.latest = emails[1], !.pc = "get_email"]]
                /\ running' = t
    /\ UNCHANGED <<file, up, crashes, requests>>

\* lines 174-192: get_email(latest.id), the text of the reply
GetEmail(t) ==
    /\ up /\ running = t
    /\ tasks[t].pc = "get_email"
    /\ \E ok \in BOOLEAN :
        IF ~ok /\ ~Catches("get_email")
        THEN /\ tasks' = [tasks EXCEPT ![t] = End("raised")]
             /\ running' = 0
        ELSE /\ tasks' = [tasks EXCEPT ![t] =
                    IF ~ok
                    THEN [@ EXCEPT !.out = Reply("get_error", <<>>), !.pc = "reply"]
                    ELSE [@ EXCEPT !.out = EmailReply(tasks[t].latest), !.pc = "reply"]]
             /\ running' = t
    /\ UNCHANGED <<file, up, crashes, requests>>

\* lines 131, 148, 163, 170, 178, 193, 199: await query.message.reply_text(...)
SendReply(t) ==
    /\ up /\ running = t
    /\ tasks[t].pc = "reply"
    /\ Send(t, tasks[t].out)
    /\ UNCHANGED <<file, up, crashes, requests>>

\* reply_text returns: the reply reached the chat, the handler ends
Delivered(t) ==
    /\ up /\ running = 0
    /\ tasks[t].pc = "await"
    /\ tasks' = [tasks EXCEPT ![t] = End("done")]
    /\ UNCHANGED <<file, up, crashes, running, requests>>

\* reply_text raises: inside the try of lines 103-135 the except branch
\* runs, anywhere else the exception leaves the handler
ReplyFails(t) ==
    /\ up /\ running = 0
    /\ tasks[t].pc = "await"
    /\ IF Last(tasks[t].replies).kind = "created"
       THEN /\ tasks' = [tasks EXCEPT ![t] = [@ EXCEPT !.pc = "except", !.exc = "reply"]]
            /\ running' = t
       ELSE /\ tasks' = [tasks EXCEPT ![t] = End("raised")]
            /\ running' = 0
    /\ UNCHANGED <<file, up, crashes, requests>>

\* error_handler, lines 201-205: an exception that left a handler is logged;
\* nothing is sent to the chat and no state changes
error_handler(t) == tasks[t].pc = "raised"

Next ==
    \/ Main
    \/ Crash
    \/ \E t \in Tasks : Start(t)
    \/ \E t \in Tasks : AnswerFails(t)
    \/ \E t \in Tasks : Load(t)
    \/ \E t \in Tasks : Alloc(t)
    \/ \E t \in Tasks : Create(t)
    \/ \E t \in Tasks : Store(t)
    \/ \E t \in Tasks : Except(t)
    \/ \E t \in Tasks : Check(t)
    \/ \E t \in Tasks : Fetch(t)
    \/ \E t \in Tasks : GetEmail(t)
    \/ \E t \in Tasks : SendReply(t)
    \/ \E t \in Tasks : Delivered(t)
    \/ \E t \in Tasks : ReplyFails(t)

Spec == Init /\ [][Next]_vars

\* the steps of one handler
Handler(t) ==
    \/ Load(t) \/ Alloc(t) \/ Create(t) \/ Store(t) \/ Except(t)
    \/ Check(t) \/ Fetch(t) \/ GetEmail(t) \/ SendReply(t)
    \/ Delivered(t) \/ ReplyFails(t)

\* The event loop keeps running the handlers that can run: the synchronous
\* calls return or raise, and an awaited reply_text returns or raises (the
\* HTTP requests carry timeouts).
FairSpec == Spec /\ WF_vars(\E t \in Tasks : Handler(t))

\* The process starts on a data.json left by an earlier run, in which
\* conversation 1 created a mailbox: counter 1 and one Session.
WarmInit ==
    /\ file = Ok(PutSession(get_next_counter(InitData), 1,
                    Session([id |-> 1, email_address |-> Confirmed(email_addr(1))], 1)))
    /\ up = FALSE
    /\ crashes = 0
    /\ running = 0
    /\ tasks = [t \in Tasks |-> NewTask]
    /\ requests = << [address |-> email_addr(1), ok |-> TRUE] >>

WarmSpec == WarmInit /\ [][Next]_vars

\* ------------------------------------------------ properties

\* the numbers of the addresses requested from the backend so far
Requested == {requests[i].address.n : i \in 1..Len(requests)}

\* C1 (uniqueness): the addresses requested from the backend are pairwise
\* distinct, and a number a handler has just been handed (it is about to
\* request the address) is none of the numbers requested before, whatever
\* the interleaving of the handlers.
C1_Uniqueness ==
    /\ \A i, j \in 1..Len(requests) :
            i # j => /\ requests[i].address # requests[j].address
                     /\ requests[i].address.n # requests[j].address.n
    /\ \A i \in 1..Len(requests) :
            requests[i].address = [user |-> "admin", n |-> requests[i].address.n,
                                   domain |-> DOMAIN_NAME]
    /\ \A t \in Tasks :
            tasks[t].pc = "create" => tasks[t].num \notin Requested
    /\ \A t, u \in Tasks :
            (t # u /\ tasks[t].pc = "create" /\ tasks[u].pc = "create")
                => tasks[t].num # tasks[u].num

\* two requests were made by two handlers that overlap: one is suspended in
\* its reply while the other has its inbox
C1_Witness ==
    \E t, u \in Tasks :
        /\ t # u
        /\ tasks[t].pc = "await" /\ Last(tasks[t].replies).kind = "created"
        /\ tasks[u].pc = "store"
        /\ Len(requests) = 2

\* C2 (durable counter): the persisted counter never decreases; an
\* allocation raises it by exactly 1 and returns the persisted value; the
\* backend is called only with a number the file already holds, so every
\* number handed out is at most the persisted counter at any later point
\* (restarts included), and a number handed out is never handed out again.
C2_Persisted ==
    /\ file.st = "absent" => requests = <<>>
    /\ file.st = "ok" => \A n \in Requested : n <= file.data.counter
    /\ \A t \in Tasks :
            tasks[t].pc = "create"
                => file.st = "ok" /\ tasks[t].num = file.data.counter

C2_Step ==
    /\ (file.st = "ok" /\ file'.st = "ok")
            => file'.data.counter \in {file.data.counter, file.data.counter + 1}
    /\ file.st # "absent" => file'.st # "absent"
    /\ \A t \in Tasks :
            (tasks[t].pc = "alloc" /\ tasks'[t].pc = "create")
                => /\ file.st = "ok" /\ file'.st = "ok"
                   /\ file'.data.counter = file.data.counter + 1
                   /\ tasks'[t].num = file'.data.counter
                   /\ tasks'[t].num \notin Requested
    /\ requests' # requests
            => /\ file.st = "ok"
               /\ Last(requests').address.n <= file.data.counter
               /\ Last(requests').address.n \notin Requested

C2_Counter == [](C2_Persisted) /\ [][C2_Step]_vars

\* number 1 was requested by a handler that died with the process; after the
\* restart the next handler is handed number 2
C2_Witness ==
    /\ crashes = 1 /\ up
    /\ Len(requests) = 1 /\ requests[1].address.n = 1
    /\ tasks[1].pc = "killed"
    /\ tasks[2].pc = "create" /\ tasks[2].num = 2

\* C3 (failed provisioning): when create_inbox fails, the store holds every
\* chat's entry as the handler loaded it (the chat's own entry included,
\* absent or present), the persisted counter is one more than loaded, and the
\* handler's next step is to send the creation-error reply, its only reply.
C3_Unchanged ==
    \A t \in Tasks :
        (tasks[t].pc = "except" /\ tasks[t].exc = "create_inbox")
            => /\ file.st = "ok"
               /\ file.data.chats = tasks[t].orig.chats
               /\ file.data.counter = tasks[t].orig.counter + 1
               /\ tasks[t].replies = <<>>

C3_Step ==
    \A t \in Tasks :
        (tasks[t].pc = "except" /\ tasks[t].exc = "create_inbox" /\ tasks'[t] # tasks[t])
            => /\ file' = file
               /\ \/ tasks'[t].pc = "killed"
                  \/ /\ tasks'[t].pc = "await"
                     /\ tasks'[t].replies = << Reply("create_error", <<>>) >>

C3_ProvisionFailed == [](C3_Unchanged) /\ [][C3_Step]_vars

\* a rotation whose create_inbox failed: the chat had an entry before
C3_Witness ==
    \E t \in Tasks :
        /\ tasks[t].pc = "except" /\ tasks[t].exc = "create_inbox"
        /\ tasks[t].chat_id \in DOMAIN tasks[t].orig.chats

\* C4 (rotation overwrite): right after a provision/rotate has saved the
\* chat's entry, a read of the store gives, for that chat, exactly the entry
\* of the new inbox; the record holds one entry per chat that had one or is
\* the handler's, and, if the chat had an entry, its inbox id appears in no
\* entry of the record any more.
C4_RotationOverwrite ==
    \A t \in Tasks :
        (tasks[t].pc = "reply" /\ tasks[t].out.kind = "created")
            => LET c == tasks[t].chat_id
                   read == load_data(file)
               IN /\ ~read.raised
                  /\ DOMAIN read.data.chats = (DOMAIN tasks[t].orig.chats) \cup {c}
                  /\ read.data.chats[c] =
                        [inbox_id |-> tasks[t].inbox.id,
                         email |-> tasks[t].inbox.email_address,
                         number |-> tasks[t].num]
                  /\ c \in DOMAIN tasks[t].orig.chats
                        => /\ tasks[t].orig.chats[c].inbox_id # tasks[t].inbox.id
                           /\ \A k \in DOMAIN read.data.chats :
                                read.data.chats[k].inbox_id
                                    # tasks[t].orig.chats[c].inbox_id

\* a rotation: the chat had an entry when the handler loaded the record
C4_Witness ==
    \E t \in Tasks :
        /\ tasks[t].pc = "reply" /\ tasks[t].out.kind = "created"
        /\ tasks[t].chat_id \in DOMAIN tasks[t].orig.chats
        /\ tasks[t].action = "change_mail"

\* C5 (no active session): a get_otp handler whose chat has no entry in the
\* loaded record goes from the test straight to the NoActiveSession reply,
\* which is its only reply: it never reaches a backend call and no exception
\* leaves it before the reply is handed to the chat.
NoSessionOp(t) ==
    /\ tasks[t].action = "get_otp"
    /\ tasks[t].pc \in {"check", "reply", "fetch", "get_email"}
    /\ tasks[t].chat_id \notin DOMAIN tasks[t].orig.chats

C5_State ==
    \A t \in Tasks :
        /\ NoSessionOp(t)
            => /\ tasks[t].pc \in {"check", "reply"}
               /\ tasks[t].replies = <<>>
               /\ tasks[t].pc = "reply" => tasks[t].out = Reply("no_session", <<>>)
        /\ (tasks[t].pc = "reply" /\ tasks[t].out.kind = "no_session")
            => NoSessionOp(t)

C5_Step ==
    /\ \A t \in Tasks :
        (NoSessionOp(t) /\ tasks'[t] # tasks[t])
            => /\ requests' = requests /\ file' = file
               /\ \/ tasks'[t].pc = "killed"
                  \/ tasks[t].pc = "check" /\ tasks'[t].pc = "reply"
                  \/ /\ tasks[t].pc = "reply" /\ tasks'[t].pc = "await"
                     /\ tasks'[t].replies = << Reply("no_session", <<>>) >>

C5_NoActiveSession == [](C5_State) /\ [][C5_Step]_vars

\* get_otp in a chat without an entry, about to reply
C5_Witness ==
    \E t \in Tasks :
        /\ tasks[t].pc = "reply" /\ tasks[t].out.kind = "no_session"
        /\ tasks[t].chat_id \notin DOMAIN file.data.chats

\* C6 (cold start): loading a missing data.json creates it as
\* {counter: 0, chats: {}}; the first allocation on that record hands out 1,
\* leaves the persisted counter at 1, and the address requested is
\* admin1@domain.
ColdRecord == [counter |-> 0, chats |-> EmptyDict]

C6_State ==
    /\ file.st = "absent" => ~up
    /\ \A t \in Tasks :
        (tasks[t].pc = "create" /\ tasks[t].orig = ColdRecord)
            => /\ tasks[t].num = 1
               /\ file = [st |-> "ok", data |-> [counter |-> 1, chats |-> EmptyDict]]

C6_Step ==
    /\ (file.st = "absent" /\ file' # file)
            => file' = [st |-> "ok", data |-> ColdRecord]
    /\ \A t \in Tasks :
        (tasks[t].pc = "create" /\ tasks[t].orig = ColdRecord /\ requests' # requests)
            => /\ Last(requests').address =
                    [user |-> "admin", n |-> 1, domain |-> DOMAIN_NAME]
               /\ file'.data.counter = 1

C6_ColdStart == [](C6_State) /\ [][C6_Step]_vars

\* the first provision after a cold start has its number
C6_Witness ==
    \E t \in Tasks :
        /\ crashes = 0 /\ requests = <<>>
        /\ tasks[t].pc = "create" /\ tasks[t].orig = ColdRecord
        /\ tasks[t].action = "create_mail"

\* C7 (empty inbox): a get_otp handler that lists an inbox holding no
\* message, the backend answering, goes to the "no emails" reply, which is
\* its only reply; the listing does not wait, no exception leaves the
\* handler before the reply is handed to the chat, the store is the record
\* the handler loaded, and the handler always comes to an end.
EmptyInboxOp(t) ==
    /\ tasks[t].action = "get_otp"
    /\ tasks[t].pc = "reply"
    /\ HasSession(tasks[t].orig, tasks[t].chat_id)
    /\ tasks[t].listed = <<>>
    /\ tasks[t].out.kind # "fetch_error"

C7_State ==
    \A t \in Tasks :
        /\ EmptyInboxOp(t)
            => /\ tasks[t].out = Reply("no_emails", <<>>)
               /\ tasks[t].replies = <<>>
               /\ file = [st |-> "ok", data |-> tasks[t].orig]
        /\ (tasks[t].pc = "reply" /\ tasks[t].out.kind = "no_emails")
            => EmptyInboxOp(t)

C7_Step ==
    \A t \in Tasks :
        /\ (tasks[t].pc = "fetch" /\ tasks'[t] # tasks[t])
            => /\ file' = file
               /\ tasks'[t].pc \in {"reply", "get_email", "killed"}
        /\ (EmptyInboxOp(t) /\ tasks'[t] # tasks[t])
            => /\ file' = file
               /\ \/ tasks'[t].pc = "killed"
                  \/ /\ tasks'[t].pc = "await"
                     /\ tasks'[t].replies = << Reply("no_emails", <<>>) >>

C7_Ends ==
    \A t \in Tasks :
        (tasks[t].pc = "fetch") ~> (tasks[t].pc \in {"done", "raised", "killed"})

C7_EmptyInbox == [](C7_State) /\ [][C7_Step]_vars /\ C7_Ends

\* the "no emails" reply is about to be sent
C7_Witness ==
    \E t \in Tasks :
        /\ tasks[t].pc = "reply" /\ tasks[t].out.kind = "no_emails"
        /\ tasks[t].listed = <<>>

\* The extraction rule of the specification: the first run of exactly six
\* decimal digits bounded by non-digits (or by the ends of the text), <<>>
\* when there is none.
IsDigit(ch) == ch \in Digits

SixDigitRuns(text) ==
    {i \in 1..(Len(text) - 5) :
        /\ \A k \in 0..5 : IsDigit(text[i + k])
        /\ i = 1 \/ ~IsDigit(text[i - 1])
        /\ i + 6 > Len(text) \/ ~IsDigit(text[i + 6])}

Extract(text) ==
    IF SixDigitRuns(text) = {} THEN <<>>
    ELSE LET i == CHOOSE j \in SixDigitRuns(text) : \A k \in SixDigitRuns(text) : j <= k
         IN SubSeq(text, i, i + 5)

\* C8 (code extraction), as claimed: on a retrieved message the content
\* replied is the first six-digit run of the body, and CodeNotFound when the
\* body has none.
C8_Extraction ==
    \A t \in Tasks :
        (tasks[t].pc = "reply" /\ tasks[t].out.kind = "email")
            => tasks[t].out.text[3] =
                    IF Extract(tasks[t].latest.body) = <<>>
                    THEN <<"CodeNotFound">>
                    ELSE Extract(tasks[t].latest.body)

\* C8, amended: on a retrieved message the reply carries the newest email's
\* subject, sender and whole body as received, with "<no subject>",
\* "<unknown sender>" and "<empty email body>" in place of an empty field;
\* nothing is extracted from the body.
C8_LatestEmail ==
    \A t \in Tasks :
        (tasks[t].pc = "reply" /\ tasks[t].out.kind = "email")
            => /\ tasks[t].listed # <<>>
               /\ tasks[t].latest = Last(tasks[t].listed)
               /\ tasks[t].replies = <<>>
               /\ tasks[t].out.text =
                    << IF tasks[t].latest.subject = "" THEN "<no subject>"
                       ELSE tasks[t].latest.subject,
                       IF tasks[t].latest.from_ = "" THEN "<unknown sender>"
                       ELSE tasks[t].latest.from_,
                       IF tasks[t].latest.body = <<>> THEN <<"<empty email body>">>
                       ELSE tasks[t].latest.body >>

\* the newest of two emails holds a six-digit code; the reply carries its
\* whole body
C8_Witness ==
    \E t \in Tasks :
        /\ tasks[t].pc = "reply" /\ tasks[t].out.kind = "email"
        /\ Len(tasks[t].listed) = 2
        /\ tasks[t].latest.body = BodyTwo
        /\ Extract(tasks[t].latest.body) = <<"1", "1", "1", "1", "1", "1">>
        /\ tasks[t].out.text[3] = BodyTwo

\* C9 (write-then-confirm): the success reply is sent only by a handler
\* whose save of the chat's new entry returned, with the entry in the file at
\* that moment; a handler whose save_data raised sends no success reply.
SendsCreated(t) ==
    /\ Len(tasks'[t].replies) = Len(tasks[t].replies) + 1
    /\ Last(tasks'[t].replies).kind = "created"

C9_Step ==
    \A t \in Tasks :
        /\ SendsCreated(t)
            => /\ tasks[t].exc = "none"
               /\ file.st = "ok"
               /\ tasks[t].chat_id \in DOMAIN file.data.chats
               /\ file.data.chats[tasks[t].chat_id] =
                    Session(tasks[t].inbox, tasks[t].num)
               /\ Last(tasks'[t].replies).text =
                    << file.data.chats[tasks[t].chat_id].email,
                       file.data.chats[tasks[t].chat_id].inbox_id >>
        /\ (tasks[t].pc \in {"alloc", "store"} /\ tasks'[t].pc \in {"create", "reply"})
            => file' = [st |-> "ok", data |-> tasks'[t].data]
        /\ (tasks[t].pc = "store" /\ tasks'[t].pc = "reply")
            => file'.data.chats[tasks[t].chat_id] = Session(tasks[t].inbox, tasks[t].num)

C9_State ==
    \A t \in Tasks :
        tasks[t].exc \in {"counter_save", "session_save"}
            => /\ tasks[t].pc = "except"
               /\ tasks[t].replies = <<>>

C9_WriteThenConfirm == [](C9_State) /\ [][C9_Step]_vars

\* the success reply is out and the chat's entry is in the file
C9_Witness ==
    \E t \in Tasks :
        /\ tasks[t].pc = "await" /\ Last(tasks[t].replies).kind = "created"
        /\ file.st = "ok" /\ tasks[t].chat_id \in DOMAIN file.data.chats
        /\ file.data.chats[tasks[t].chat_id].inbox_id = Last(tasks[t].replies).text[2]

\* C10 (one response per operation), as claimed: a handler that has started
\* its operation ends (returns or lets an exception out) only after exactly
\* one reply_text call.
C10_OneResponse ==
    [][\A t \in Tasks :
        (Live(t) /\ tasks'[t].pc \in {"done", "raised"})
            => Len(tasks[t].replies) = 1]_vars

\* C11 (backend failures are caught): no step of a handler in a backend
\* call (create_inbox, get_emails_for_inbox, get_email) lets an exception
\* out of the handler; a failed create_inbox leads to the except branch and
\* the creation-error reply, a failed listing or get_email to its
\* retrieval-error reply, each the handler's only reply.
BackendError(t) ==
    \/ tasks[t].pc = "except" /\ tasks[t].exc = "create_inbox"
    \/ tasks[t].pc = "reply" /\ tasks[t].out.kind \in {"fetch_error", "get_error"}

C11_Step ==
    \A t \in Tasks :
        /\ (tasks[t].pc \in {"create", "fetch", "get_email"} /\ tasks'[t] # tasks[t])
            => /\ tasks'[t].pc \in {"store", "except", "get_email", "reply", "killed"}
               /\ tasks'[t].pc # "killed" => running' = t
        /\ (tasks[t].pc = "create" /\ requests' # requests /\ ~Last(requests').ok)
            => tasks'[t].pc = "except" /\ tasks'[t].exc = "create_inbox"
        /\ (BackendError(t) /\ tasks'[t] # tasks[t])
            => \/ tasks'[t].pc = "killed"
               \/ /\ tasks'[t].pc = "await"
                  /\ tasks'[t].replies =
                        << Reply(IF tasks[t].pc = "except" THEN "create_error"
                                 ELSE tasks[t].out.kind, <<>>) >>

C11_BackendCaught == [][C11_Step]_vars

\* get_email has failed for a listed email; the retrieval error is about to
\* be sent
C11_Witness ==
    \E t \in Tasks :
        /\ tasks[t].pc = "reply" /\ tasks[t].out.kind = "get_error"
        /\ tasks[t].emails # <<>>

\* C12 (atomic whole-record writes): at every point of every execution,
\* also after a failed write or a crash during one, load_data finds either
\* no file or a complete record; it never finds an empty or partial one.
C12_AtomicWrites == ~load_data(file).raised

\* What a read of the Session of conversation k finds in the file f: whether
\* the record could be loaded, and the Session held for k (none or one).
SessionOf(f, k) ==
    LET r == load_data(f)
    IN [readable |-> ~r.raised,
        held |-> IF ~r.raised /\ HasSession(r.data, k) THEN {r.data.chats[k]} ELSE {}]

\* C13 (no lost update): a step of a create_mail / change_mail handler for
\* conversation A that writes the record (the counter at alloc, the Session at
\* store) leaves the Session of every other conversation present and unchanged
\* for the next reader, whatever ran in between and however the write ends.
C13_Step ==
    \A t \in Tasks :
        (tasks[t].pc \in {"alloc", "store"} /\ tasks'[t] # tasks[t]
            /\ tasks'[t].pc # "killed")
            => \A k \in Chats \ {tasks[t].chat_id} :
                    SessionOf(file, k).held # {}
                        => SessionOf(file', k) = SessionOf(file, k)

C13_NoLostUpdate == [][C13_Step]_vars

\* C14 (independent waits): while a get_otp handler is in its backend inbox
\* call (get_emails_for_inbox or get_email), a callback of any conversation
\* that has arrived and not been handled yet can start being handled.
C14_IndependentWaits ==
    \A t \in Tasks :
        tasks[t].pc \in {"fetch", "get_email"}
            => \A u \in Tasks \ {t} : tasks[u].pc = "idle" => ENABLED Start(u)

\* C15 (unreadable record): an unreadable data.json stays as it is: main
\* cannot start on it, a handler that loads it ends with the exception and
\* without a reply, and no step replaces it; the initial record is written
\* only where no file existed.
C15_State == (file.st = "corrupt" /\ ~up) => ~ENABLED Main

C15_Step ==
    /\ file.st = "corrupt" => file' = file
    /\ (file' = Ok(ColdRecord) /\ file' # file) => file.st = "absent"
    /\ \A t \in Tasks :
        (tasks[t].pc = "load" /\ file.st = "corrupt" /\ tasks'[t] # tasks[t])
            => tasks'[t] \in {End("raised"), End("killed")}

C15_UnreadableFails == []C15_State /\ [][C15_Step]_vars

\* a handler is about to load an unreadable data.json
C15_Witness ==
    \E t \in Tasks : tasks[t].pc = "load" /\ file.st = "corrupt" /\ running = t

\* C16 (retrieve-code is read-only): no step of a get_otp handler, on any of
\* its paths (no Session, listing failed, no email, get_email failed, email
\* shown), changes data.json: the file is still the record the handler
\* loaded, counter and Sessions included.
C16_State ==
    \A t \in Tasks :
        (Live(t) /\ tasks[t].action = "get_otp" /\ tasks[t].pc # "load")
            => file = Ok(tasks[t].orig)

C16_Step ==
    \A t \in Tasks :
        (Live(t) /\ tasks[t].action = "get_otp" /\ tasks'[t] # tasks[t])
            => file' = file

C16_ReadOnly == []C16_State /\ [][C16_Step]_vars

\* a get_otp handler is about to show an email; the record holds Sessions
C16_Witness ==
    \E t \in Tasks :
        /\ tasks[t].action = "get_otp" /\ tasks[t].pc = "reply"
        /\ tasks[t].out.kind = "email"
        /\ file.st = "ok" /\ file.data.counter >= 1
        /\ HasSession(file.data, tasks[t].chat_id)

\* C17 (idempotent read): what a read of a conversation's Session finds
\* changes only in a step that completes a create_mail / change_mail of that
\* conversation (the save of line 117 succeeds); steps of other
\* conversations' handlers and of failed attempts leave it as it was.
C17_Step ==
    \A c \in Chats :
        (up' /\ SessionOf(file, c).held # {} /\ SessionOf(file', c) # SessionOf(file, c))
            => \E t \in Tasks :
                /\ tasks[t].pc = "store" /\ tasks[t].chat_id = c
                /\ tasks'[t].pc = "reply" /\ tasks'[t].out.kind = "created"

C17_IdempotentRead == [][C17_Step]_vars

\* C18 (stored Session): when a create_mail / change_mail handler has saved
\* the Session (it is about to send the success reply), the record holds for
\* its conversation the id and the address of the inbox the backend returned
\* for the handler's request (not the address as formatted locally), with
\* the number the handler was allocated.
C18_StoredSession ==
    \A t \in Tasks :
        (tasks[t].pc = "reply" /\ tasks[t].out.kind = "created")
            => /\ file.st = "ok"
               /\ HasSession(file.data, tasks[t].chat_id)
               /\ LET s == file.data.chats[tasks[t].chat_id]
                      i == Len(requests)
                  IN /\ i >= 1 /\ requests[i].ok
                     /\ s.inbox_id = i
                     /\ s.email = [requests[i].address EXCEPT !.domain = "mail.example"]
                     /\ s.email # requests[i].address
                     /\ s.number = requests[i].address.n
                     /\ s.number = tasks[t].num
                     /\ s.number = tasks[t].orig.counter + 1

\* a change_mail handler has saved a Session with the second number
C18_Witness ==
    \E t \in Tasks :
        /\ tasks[t].pc = "reply" /\ tasks[t].out.kind = "created"
        /\ tasks[t].action = "change_mail"
        /\ file.st = "ok" /\ HasSession(file.data, tasks[t].chat_id)
        /\ file.data.chats[tasks[t].chat_id].number = 2

\* C19 (error leaves the Session): whenever a create_mail / change_mail
\* handler is in its except branch, about to reply that creating the mailbox
\* failed, the Session a reader finds for its conversation in a readable
\* data.json is the one the handler loaded at its start, whichever statement
\* of the try raised.
C19_ErrorLeavesSession ==
    \A t \in Tasks :
        (tasks[t].pc = "except" /\ file.st = "ok")
            => SessionOf(file, tasks[t].chat_id)
                    = SessionOf(Ok(tasks[t].orig), tasks[t].chat_id)

\* C20 (allocation numbers in the record): in every readable data.json the
\* number of each stored Session lies between 1 and the counter, and no two
\* conversations hold Sessions with the same number.
C20_Numbers ==
    file.st = "ok"
        => /\ \A k \in DOMAIN file.data.chats :
                /\ file.data.chats[k].number >= 1
                /\ file.data.chats[k].number <= file.data.counter
           /\ \A k, l \in DOMAIN file.data.chats :
                file.data.chats[k].number = file.data.chats[l].number => k = l

\* two conversations hold Sessions, with the numbers 1 and 2
C20_Witness ==
    /\ file.st = "ok"
    /\ DOMAIN file.data.chats = {1, 2}
    /\ {file.data.chats[k].number : k \in {1, 2}} = {1, 2}
    /\ file.data.counter = 2

=============================================================================
